---- MODULE Spec2Model ----
(***************************************************************************)
(* Model of the gleadbet/nest thermostat dashboard backends.               *)
(*                                                                         *)
(*  - the Express backend (src/src/index.js): the process-wide device-list *)
(*    cache, fetchDeviceList with its backOff retry, and the routes        *)
(*    GET /api/devices, POST /api/devices/:id/{name,temperature,mode},     *)
(*    /auth/callback and /auth/logout;                                     *)
(*  - the Next.js backend (src/app/api/auth/[...nextauth]/route.ts and the *)
(*    device routes): the jwt and session callbacks and the routes that    *)
(*    call the device API with session.accessToken.                        *)
(*                                                                         *)
(* Time is in milliseconds, as in the source; the clock moves in steps of  *)
(* one second.  An optional value (null / undefined in the source) is the  *)
(* empty sequence None, a present value v is Some(v) = <<v>>.              *)
(***************************************************************************)
EXTENDS Integers, Sequences, FiniteSets, TLC

\* ------------------------------------------------------------ bounds
MaxTicks == 8
\* the length of the device lists the normalisation is tried with
MaxDevices == 3
\* the time the polling client is followed for, in steps of PollStep
MaxPolls == 5
\* the requests the polling client has in flight at once
MaxInFlight == 2
\* the fetches and the retry timers a component has pending at once
MaxPending == 1
\* the 429 answers the polling client counts
MaxRetryCount == 2

\* ------------------------------------------------- program constants
CACHE_DURATION == 5000
numOfAttempts == 3
\* App.js: the base of the client's backoff, its ceiling, and the default
\* poll interval in seconds
BASE_INTERVAL == 60000
MaxBackoff == 300000
DefaultPollInterval == 30
startingDelay == 1000
timeMultiple == 2
maxDelay == 5000

\* ------------------------------------------------------------ values
None == <<>>
Some(x) == <<x>>
IsSome(o) == Len(o) > 0

Min(a, b) == IF a <= b THEN a ELSE b

RECURSIVE Pow(_, _)
Pow(b, e) == IF e = 0 THEN 1 ELSE b * Pow(b, e - 1)

MaxTime == MaxTicks * 1000

Sessions == {"s1"}
\* two browsers, each with its own session cookie
Browsers == {"s1", "s2"}
THERMOSTAT == "sdm.devices.types.THERMOSTAT"
CAMERA == "sdm.devices.types.CAMERA"
Modes == {"HEAT", "COOL", "ECO", "OFF"}
\* a JSON value of a request body: absent, null, a number or a string (the
\* string as the sequence of its characters)
Undefined == [kind |-> "undefined", num |-> 0, str |-> <<>>]
Null == [kind |-> "null", num |-> 0, str |-> <<>>]
Num(n) == [kind |-> "number", num |-> n, str |-> <<>>]
Str(cs) == [kind |-> "string", num |-> 0, str |-> cs]

\* request inputs
TempInputs == {8, 20}
\* the bodies the temperature route is tried with: the numbers around the two
\* ends of the range, and the strings "20", "20a", "a" and ""
EdgeTemps == {8, 9, 32, 33}
TempStrings == {<<"2", "0">>, <<"2", "0", "a">>, <<"a">>, <<>>}
TempBodies == {Undefined, Null} \cup {Num(n) : n \in EdgeTemps} \cup {Str(cs) : cs \in TempStrings}
ModeInputs == {"", "HEAT", "ECO"}
NameInputs == {"", "Den"}
DeviceIds == {"t1"}

\* HTTP status of an upstream answer; 0 is a network error (no response)
ErrStatuses == {0, 404}
\* an upstream answer: its status and, for a 200 of the list call, whether
\* the body carries a `devices` property
Outcomes == {[status |-> 200, hasDevices |-> TRUE], [status |-> 200, hasDevices |-> FALSE]}
              \cup {[status |-> s, hasDevices |-> FALSE] : s \in ErrStatuses}
OkOutcome == [status |-> 200, hasDevices |-> TRUE]
IsOk(o) == o.status >= 200 /\ o.status < 300

VARIABLES
  now,                 \* Date.now()
  deviceListCache,     \* None (null) or Some(raw device list)
  lastDeviceListFetch, \* ms
  session,             \* per browser session: accessToken, customNames
  thermostat,          \* the upstream thermostat's traits
  wroteSince,          \* history: a write succeeded since the last list call
  lastListOkAt,        \* history: start time of the last GET /api/devices that
                       \* got a 200 from upstream, None after a write
  last,                \* what the most recent request of the Express backend did
  jwt,                 \* Next.js backend: None or Some(the token of the session cookie)
  authLast,            \* what the most recent request of the Next.js backend did
  retryRun,            \* the outcome of one backOff call on its own
  normRun,             \* the outcome of one normalisation of a device list on its own
  flights,             \* the fetchDeviceList calls that are between their start and their end
  nameRun,             \* the name requests that are between their start and their end
  app,                 \* the state of the App component of the polling client
  widgets              \* the TemperatureDial and TemperatureGraph components

vars == <<now, deviceListCache, lastDeviceListFetch, session, thermostat,
          wroteSince, lastListOkAt, last, jwt, authLast, retryRun, normRun, flights, nameRun,
          app, widgets>>

\* the variables of the Express backend, of the Next.js backend
expressVars == <<deviceListCache, lastDeviceListFetch, session, thermostat,
                 wroteSince, lastListOkAt, last>>
nextVars == <<jwt, authLast>>
\* the variables that hold what is followed on its own: the run of a
\* function, or the steps of a call between its awaits
pureVars == <<retryRun, normRun, flights, nameRun>>
\* the variables of the browser clients
clientVars == <<app, widgets>>


\* ---------------------------------------------------- upstream devices
\* device.name is a path; the source takes its last segment
DevicePath(id) == <<"enterprises", "proj", "devices", id>>

NoTraits == [mode |-> None, heatCelsius |-> None, coolCelsius |-> None,
             ambientTemperatureCelsius |-> None, ambientHumidityPercent |-> None]

Thermo(t) == [name |-> DevicePath("t1"), type |-> THERMOSTAT, traits |-> t]

Camera == [name |-> DevicePath("c1"), type |-> CAMERA, traits |-> NoTraits]

\* the body of upstream GET /devices
UpstreamDevices == <<Thermo(thermostat), Camera>>

InitThermostat(m) == [mode |-> Some(m), heatCelsius |-> Some(20), coolCelsius |-> Some(24),
                      ambientTemperatureCelsius |-> Some(19), ambientHumidityPercent |-> Some(40)]

\* ------------------------------------------------------------- backOff
\* a `retry` option that gives up after the first failure
retryNever(e, attemptNumber) == FALSE

\* exponential-backoff's default `retry` option: the call passes none
retry(e, attemptNumber) == TRUE

\* the delay applied before the k-th attempt (delayFirstAttempt is off)
DelayBefore(k) ==
  IF k = 1 THEN 0 ELSE Min(startingDelay * Pow(timeMultiple, k - 2), maxDelay)

RECURSIVE SumDelays(_)
SumDelays(k) == IF k = 0 THEN 0 ELSE DelayBefore(k) + SumDelays(k - 1)

\* the number of attempts made when the k-th and later attempts would be
\* answered outs[k], outs[k+1], ...
RECURSIVE AttemptsFrom(_, _)
AttemptsFrom(outs, k) ==
  IF IsOk(outs[k]) THEN k
  ELSE IF ~retry(outs[k], k) \/ k >= numOfAttempts THEN k
  ELSE AttemptsFrom(outs, k + 1)

backOff(outs) ==
  LET n == AttemptsFrom(outs, 1)
  IN [attempts |-> n,
      outcome  |-> outs[n],
      calls    |-> [i \in 1..n |-> outs[i]],
      delays   |-> [k \in 1..n |-> DelayBefore(k)],
      delay    |-> SumDelays(n)]

\* ----------------------------------------------------- fetchDeviceList
\* the cache test with the age comparison the wrong way round
useCacheInverted(forceRefresh) ==
  ~forceRefresh /\ IsSome(deviceListCache)
    /\ (now - lastDeviceListFetch) > CACHE_DURATION

\* the cache test of fetchDeviceList: null is falsy, every array is truthy
useCache(forceRefresh) ==
  ~forceRefresh /\ IsSome(deviceListCache)
    /\ (now - lastDeviceListFetch) < CACHE_DURATION

\* "Returning cached device list"
cachedResult ==
  [threw |-> FALSE, error |-> OkOutcome, value |-> deviceListCache[1],
   calls |-> <<>>, delay |-> 0,
   cache |-> deviceListCache, fetchedAt |-> lastDeviceListFetch]

\* a failed fetch that falls back to the cache entry when there is one
fetchFailedFallback(r) ==
  [threw |-> ~IsSome(deviceListCache), error |-> r.outcome,
   value |-> IF IsSome(deviceListCache) THEN deviceListCache[1] ELSE <<>>,
   calls |-> r.calls, delay |-> r.delay,
   cache |-> deviceListCache, fetchedAt |-> lastDeviceListFetch]

\* catch (error) { throw error }
fetchFailed(r) ==
  [threw |-> TRUE, error |-> r.outcome, value |-> <<>>,
   calls |-> r.calls, delay |-> r.delay,
   cache |-> deviceListCache, fetchedAt |-> lastDeviceListFetch]

\* if (!response.data?.devices) return []
fetchEmpty(r) ==
  [threw |-> FALSE, error |-> OkOutcome, value |-> <<>>,
   calls |-> r.calls, delay |-> r.delay,
   cache |-> deviceListCache, fetchedAt |-> lastDeviceListFetch]

\* "Update cache": the slot takes the list, the timestamp the `now` read at
\* the start of the call
fetchStored(r) ==
  [threw |-> FALSE, error |-> OkOutcome, value |-> UpstreamDevices,
   calls |-> r.calls, delay |-> r.delay,
   cache |-> Some(UpstreamDevices), fetchedAt |-> now]

\* The result of fetchDeviceList(accessToken, forceRefresh) when the attempts
\* of its upstream GET would be answered by outs: whether it threw, the value
\* returned, the upstream calls made, the time spent waiting between
\* attempts, and the cache slot and timestamp it leaves.
fetchDeviceList(forceRefresh, outs) ==
  IF useCache(forceRefresh) THEN cachedResult
  ELSE LET r == backOff(outs) IN
       IF ~IsOk(r.outcome) THEN fetchFailed(r)
       ELSE IF ~r.outcome.hasDevices THEN fetchEmpty(r)
       ELSE fetchStored(r)

\* -------------------------------------------------------- normalisation
\* JavaScript truthiness of an optional number / string
TruthyNum(o) == IsSome(o) /\ o[1] # 0
TruthyStr(o) == IsSome(o) /\ o[1] # ""

\* the 'N/A' marker of a numeric field
NA == None
NumOrNA(o) == IF TruthyNum(o) THEN o ELSE NA
StrOr(o, dflt) == IF TruthyStr(o) THEN o[1] ELSE dflt

\* device.name.split('/').pop()
IdOf(device) == device.name[Len(device.name)]

\* a filter that lets every device through
IsThermostatAny(device) == TRUE

IsThermostat(device) == device.type = THERMOSTAT

Thermostats(devices) == SelectSeq(devices, IsThermostat)

\* a display name that ignores the names stored in the session
DisplayNameIgnored(customNames, device) == IdOf(device)

\* req.session.customNames?.[deviceId] || device.name.split('/').pop()
DisplayName(customNames, device) ==
  LET id == IdOf(device) IN
  IF id \in DOMAIN customNames /\ TruthyStr(customNames[id])
  THEN customNames[id][1] ELSE id

\* the record GET /api/devices builds for one thermostat
ReadRecord(customNames, device) ==
  LET traits == device.traits IN
  [id          |-> IdOf(device),
   name        |-> DisplayName(customNames, device),
   currentTemp |-> NumOrNA(traits.ambientTemperatureCelsius),
   targetTemp  |-> IF TruthyNum(traits.heatCelsius) THEN traits.heatCelsius
                   ELSE IF TruthyNum(traits.coolCelsius) THEN traits.coolCelsius
                   ELSE NA,
   mode        |-> StrOr(traits.mode, "N/A"),
   humidity    |-> NumOrNA(traits.ambientHumidityPercent)]

ReadList(customNames, devices) ==
  LET ts == Thermostats(devices) IN [i \in 1..Len(ts) |-> ReadRecord(customNames, ts[i])]

\* the record the temperature and mode routes build for one thermostat
WriteRecord(customNames, device) ==
  LET traits == device.traits
      mode == StrOr(traits.mode, "HEAT")
      targetTemp == IF mode = "COOL" THEN traits.coolCelsius
                    ELSE IF mode = "HEAT" THEN traits.heatCelsius
                    ELSE NA
  IN [id          |-> IdOf(device),
      name        |-> DisplayName(customNames, device),
      currentTemp |-> NumOrNA(traits.ambientTemperatureCelsius),
      targetTemp  |-> NumOrNA(targetTemp),
      mode        |-> mode,
      humidity    |-> NumOrNA(traits.ambientHumidityPercent)]

WriteList(customNames, devices) ==
  LET ts == Thermostats(devices) IN [i \in 1..Len(ts) |-> WriteRecord(customNames, ts[i])]

\* the record the name route builds for one thermostat
NameRecord(customNames, device) ==
  [name |-> device.name, type |-> device.type, traits |-> device.traits,
   customName |-> DisplayName(customNames, device)]

NameList(customNames, devices) ==
  LET ts == Thermostats(devices) IN [i \in 1..Len(ts) |-> NameRecord(customNames, ts[i])]

\* -------------------------------------------------------------- session
EmptySession == [tokens |-> None, accessToken |-> None, oauthState |-> None,
                 customNames |-> [id \in DeviceIds |-> None]]

\* a route that takes every session to hold a token
AccessTokenAssumed(s) == Some("tok")

\* req.session?.tokens?.access_token || req.session?.accessToken
AccessToken(s) ==
  IF TruthyStr(session[s].tokens) THEN session[s].tokens ELSE session[s].accessToken

\* error.response?.status || 500
ErrorStatus(outcome) == IF outcome.status = 0 THEN 500 ELSE outcome.status

\* --------------------------------------------------- the request record
\* one upstream HTTP call: endpoint, answer, and the command POSTed
Call(ep, outcome, command, param) ==
  [ep |-> ep, status |-> outcome.status, command |-> command, param |-> param]

ListCalls(outs) == [i \in 1..Len(outs) |-> Call("GET /devices", outs[i], "", None)]

NoFetch == [called |-> FALSE, force |-> FALSE, threw |-> FALSE, value |-> <<>>]
Fetch(force, f) == [called |-> TRUE, force |-> force, threw |-> f.threw, value |-> f.value]

\* what a request did: the route, the response (status, device list), the
\* upstream calls in order and its fetchDeviceList call; n is the parity of
\* the number of requests handled, so that every request changes the record
Request(op, s, status, body, calls, fetch) ==
  [op |-> op, sess |-> s, status |-> status, body |-> body, calls |-> calls,
   fetch |-> fetch, error |-> "", input |-> None, n |-> 1 - last.n]

\* a request answered with an error: res.status(status).json({error: ...})
Refused(op, s, status, error, calls) ==
  [Request(op, s, status, <<>>, calls, NoFetch) EXCEPT !.error = error]

\* the answers the attempts of one backOff call may get: nothing is asked
\* after the first 2xx answer
\* and the failing answers of one call carry one status
AttemptOutcomes ==
  {outs \in [1..numOfAttempts -> Outcomes] :
     \A i, j \in 1..numOfAttempts :
       /\ (i < j /\ IsOk(outs[i])) => outs[j] = OkOutcome
       /\ (~IsOk(outs[i]) /\ ~IsOk(outs[j])) => outs[i] = outs[j]}

\* no answer of the token endpoint: it was not called
NoRefreshAnswer == [kind |-> "none", access_token |-> "", expires_in |-> 0, latency |-> 0]

\* the request record of the Next.js backend before any request
NoAuthRequest ==
  [route |-> "init", status |-> 0, refreshCalls |-> 0, refresh |-> NoRefreshAnswer,
   session |-> None, sent |-> None, error |-> "", requiresReauth |-> None,
   details |-> None, upstream |-> None, n |-> 0]

\* ------------------------------------------------ the polling client
\* the step of the client's clock: one default poll interval
PollStep == DefaultPollInterval * 1000
MaxClock == MaxPolls * PollStep

\* temperatures of the client are counted in eighteenths of a degree
\* Celsius, so that half degrees and whole degrees Fahrenheit are integers
Scale == 18
Celsius(c) == c * Scale
\* (f - 32) * 5/9, in eighteenths of a degree
FromFahrenheit(f) == (f - 32) * 10

\* the options of the "Temp increment" select: 0.5 and 1.0
TempIncrements == {Scale \div 2, Scale}

\* device.targetTemp of the row clicked: 'N/A', the ends of the server's
\* range, a middle value, and 49 and 89 degrees Fahrenheit as the Nest app
\* sets them
TargetTemps == {None, Some(Celsius(9)), Some(Celsius(20)), Some(Celsius(32)),
                Some(FromFahrenheit(49)), Some(FromFahrenheit(89))}

\* Math.min(BASE_INTERVAL * Math.pow(2, retryCount), 300000)
backoffTime(retryCount) == Min(BASE_INTERVAL * Pow(2, retryCount), MaxBackoff)

NoClick == [passed |-> FALSE, value |-> None, n |-> 0]
NoGet == [cause |-> "none", n |-> 0]

\* the state of App after its first render: the hooks' initial values, no
\* interval, no timer, nothing in flight
InitApp ==
  [isAuthenticated |-> FALSE, isPolling |-> TRUE, retryCount |-> 0,
   useFahrenheit |-> TRUE, tempIncrement |-> Scale \div 2,
   pollInterval |-> DefaultPollInterval,
   clock |-> 0,
   interval |-> None,       \* the setInterval of the polling effect
   timers |-> {},           \* the times the backoff setTimeouts fire at
   gets |-> <<>>,           \* GET /api/devices in flight, with the retryCount each closed over
   commands |-> <<>>,       \* temperature and mode POSTs in flight
   quietUntil |-> 0,        \* the end of the last backoff announced
   lastGet |-> NoGet,       \* the last GET /api/devices issued
   lastClick |-> NoClick]   \* the last click on + or -

\* fetchDevices is called: GET /api/devices leaves
IssueGet(a, cause) ==
  [a EXCEPT !.gets = Append(@, [retryCount |-> a.retryCount]),
            !.lastGet = [cause |-> cause, n |-> 1 - a.lastGet.n]]

\* the interval the polling effect sets
currentInterval(a) ==
  IF a.retryCount > 0 THEN backoffTime(a.retryCount) ELSE a.pollInterval * 1000

\* the polling effect: its cleanup clears the interval, then its body
\* fetches at once and sets the interval anew while polling is on
pollingEffect(a) ==
  IF ~a.isAuthenticated THEN [a EXCEPT !.interval = None]
  ELSE [IssueGet(a, "effect") EXCEPT
          !.interval = IF a.isPolling
                       THEN Some([period |-> currentInterval(a),
                                  next |-> a.clock + currentInterval(a)])
                       ELSE None]

\* the dependencies of the polling effect
effectDeps(a) == <<a.pollInterval, a.retryCount, a.isPolling, a.isAuthenticated>>

\* a render after state updates: the effect runs again when a dependency
\* has changed
rendered(old, new) == IF effectDeps(old) # effectDeps(new) THEN pollingEffect(new) ELSE new

\* the requests in flight stay within the bound
Bounded(a) == Len(a.gets) <= MaxInFlight /\ Len(a.commands) <= MaxInFlight

Without(seq, i) == [j \in 1..(Len(seq) - 1) |-> IF j < i THEN seq[j] ELSE seq[j + 1]]

ClientStep(a) ==
  /\ Bounded(a)
  /\ app' = a
  /\ UNCHANGED <<now, expressVars, nextVars, pureVars, widgets>>

\* checkAuth on mount succeeds: setIsAuthenticated(true)
CheckAuth ==
  /\ ~app.isAuthenticated
  /\ ClientStep(rendered(app, [app EXCEPT !.isAuthenticated = TRUE]))

\* the interval calls fetchDevices
IntervalFires ==
  /\ IsSome(app.interval)
  /\ app.interval[1].next <= app.clock
  /\ ClientStep([IssueGet(app, "interval") EXCEPT
                   !.interval = Some([@[1] EXCEPT !.next = @ + app.interval[1].period])])

\* fetchDevices after its answer: 200 resets the counters, 429 counts the
\* retry, stops polling and sets the timer, any other status sets the error
GetAnswered(i, status) ==
  /\ i \in 1..Len(app.gets)
  /\ LET rest == [app EXCEPT !.gets = Without(@, i)]
         newRetryCount == app.gets[i].retryCount + 1
     IN IF status = 429
        THEN /\ newRetryCount <= MaxRetryCount
             /\ ClientStep(rendered(app,
                  [rest EXCEPT !.retryCount = newRetryCount,
                               !.isPolling = FALSE,
                               !.timers = @ \cup {app.clock + backoffTime(newRetryCount)},
                               !.quietUntil = app.clock + backoffTime(newRetryCount)]))
        ELSE IF status = 200
        THEN ClientStep(rendered(app, [rest EXCEPT !.retryCount = 0, !.isPolling = TRUE]))
        ELSE ClientStep(rest)

\* the timer of a backoff fires: setIsPolling(true), setRetryCount(0)
TimerFires(at) ==
  /\ at \in app.timers
  /\ at <= app.clock
  /\ ClientStep(rendered(app, [app EXCEPT !.timers = @ \ {at},
                                          !.isPolling = TRUE, !.retryCount = 0]))

\* time passes when no timer and no interval is due
ClockTick ==
  /\ app.clock + PollStep <= MaxClock
  /\ \A at \in app.timers : at > app.clock
  /\ IsSome(app.interval) => app.interval[1].next > app.clock
  /\ ClientStep([app EXCEPT !.clock = @ + PollStep])

\* the unit button and the increment select
SwitchUnit == ClientStep([app EXCEPT !.useFahrenheit = ~@])
SetTempIncrement(inc) ==
  /\ inc # app.tempIncrement
  /\ ClientStep([app EXCEPT !.tempIncrement = inc])

\* the range check of handleIncrement: 9 to 32, or 48 to 90 degrees
\* Fahrenheit turned into Celsius
minTemp(useFahrenheit) == IF useFahrenheit THEN FromFahrenheit(48) ELSE Celsius(9)
maxTemp(useFahrenheit) == IF useFahrenheit THEN FromFahrenheit(90) ELSE Celsius(32)
clientAccepts(useFahrenheit, newTemp) ==
  ~(newTemp < minTemp(useFahrenheit) \/ newTemp > maxTemp(useFahrenheit))

\* the range check of POST /api/devices/:deviceId/temperature on the
\* client's scale
serverAccepts(tempValue) == ~(tempValue < Celsius(9) \/ tempValue > Celsius(32))

\* handleIncrement: a click on + (sign 1) or - (sign -1) in the row of a
\* device with the given targetTemp, a number or 'N/A'
HandleIncrement(targetTemp, sign) ==
  LET newTemp == targetTemp[1] + sign * app.tempIncrement
      click(passed, value) == [passed |-> passed, value |-> value, n |-> 1 - app.lastClick.n]
  IN IF ~IsSome(targetTemp)
     THEN ClientStep([app EXCEPT !.lastClick = click(FALSE, None)])
     ELSE IF ~clientAccepts(app.useFahrenheit, newTemp)
     THEN ClientStep([app EXCEPT !.lastClick = click(FALSE, Some(newTemp))])
     ELSE ClientStep([app EXCEPT !.lastClick = click(TRUE, Some(newTemp)),
                                 !.commands = Append(@, "temperature")])

\* handleModeChange: the mode select changes
HandleModeChange ==
  ClientStep([app EXCEPT !.commands = Append(@, "mode")])

\* a command is answered: handleIncrement fetches the devices after a
\* success, handleModeChange takes the list of the answer
CommandAnswered(i, ok) ==
  /\ i \in 1..Len(app.commands)
  /\ LET rest == [app EXCEPT !.commands = Without(@, i)]
     IN IF ok /\ app.commands[i] = "temperature"
        THEN ClientStep(IssueGet(rest, "increment"))
        ELSE ClientStep(rest)

NextApp ==
  \/ CheckAuth
  \/ IntervalFires
  \/ \E i \in 1..MaxInFlight, status \in {200, 429, 500} : GetAnswered(i, status)
  \/ \E at \in app.timers : TimerFires(at)
  \/ ClockTick

NextCommands ==
  \/ CheckAuth
  \/ \E i \in 1..MaxInFlight : GetAnswered(i, 200)
  \/ SwitchUnit
  \/ \E inc \in TempIncrements : SetTempIncrement(inc)
  \/ \E t \in TargetTemps, sign \in {-1, 1} : HandleIncrement(t, sign)
  \/ HandleModeChange
  \/ \E i \in 1..MaxInFlight, ok \in BOOLEAN : CommandAnswered(i, ok)

\* ------------------------------- TemperatureDial and TemperatureGraph
\* TemperatureDial before its lifecycle effect has run: isMountedRef is
\* true, no socket, no interval, nothing in flight
InitDial ==
  [isMounted |-> TRUE, unmounted |-> FALSE, started |-> FALSE,
   interval |-> FALSE,
   socketRef |-> "none",   \* none, connecting, connected, or closed
   open |-> 0,             \* the sockets created and not disconnected
   fetches |-> 0,          \* GET /api/devices/:id in flight
   timers |-> 0,           \* retry timers set and not yet fired
   retryCount |-> 0,
   deviceData |-> "none",  \* none, rest (from a fetch) or socket (from an event)
   isLoading |-> TRUE]

\* TemperatureGraph before its effects have run
InitGraph ==
  [isMounted |-> TRUE, unmounted |-> FALSE, started |-> FALSE,
   interval |-> FALSE,
   socketFetch |-> FALSE,  \* fetch('/api/socket') in flight
   socketRef |-> "none",   \* none, open or closed
   open |-> 0,
   fetches |-> 0,          \* GET temperature-history in flight
   timers |-> 0,
   retryCount |-> 0,
   data |-> "none",        \* none, history (from a fetch) or socket (from an event)
   isLoading |-> TRUE]

\* the retries a failing fetch is given
MaxFetchRetries == 5

WidgetStep(name, w) ==
  /\ w.open <= MaxPending + 1 /\ w.fetches <= MaxPending /\ w.timers <= MaxPending
  /\ widgets' = [widgets EXCEPT ![name] = w]
  /\ UNCHANGED <<now, expressVars, nextVars, pureVars, app>>

\* initializeSocket of TemperatureDial, the session holding a token
initializeSocket(d) ==
  IF d.socketRef = "connected" THEN d
  ELSE [d EXCEPT !.socketRef = "connecting", !.open = @ + 1]

\* fetchDeviceData up to its fetch
fetchDeviceData(d) == IF ~d.isMounted THEN d ELSE [d EXCEPT !.fetches = @ + 1]

\* the lifecycle effect of TemperatureDial
DialMount ==
  LET d == widgets.dial IN
  /\ ~d.started
  /\ WidgetStep("dial", [fetchDeviceData(initializeSocket(d)) EXCEPT
                           !.started = TRUE, !.isLoading = TRUE, !.interval = TRUE])

\* the cleanup of the lifecycle effect at unmount
DialUnmount ==
  LET d == widgets.dial IN
  /\ d.started /\ ~d.unmounted
  /\ WidgetStep("dial", [d EXCEPT !.isMounted = FALSE, !.unmounted = TRUE,
                                  !.interval = FALSE,
                                  !.socketRef = IF @ = "connected" THEN "closed" ELSE @,
                                  !.open = IF d.socketRef = "connected" THEN @ - 1 ELSE @])

\* socket.on('connect')
DialSocketConnects ==
  LET d == widgets.dial IN
  /\ d.socketRef = "connecting"
  /\ WidgetStep("dial", [d EXCEPT !.socketRef = "connected"])

\* socket.on('device-<id>-update')
DialSocketUpdate ==
  LET d == widgets.dial IN
  /\ d.socketRef = "connected"
  /\ WidgetStep("dial", IF d.isMounted THEN [d EXCEPT !.deviceData = "socket"] ELSE d)

\* the setInterval callback
DialIntervalFires ==
  LET d == widgets.dial IN
  /\ d.interval
  /\ WidgetStep("dial", IF d.isMounted THEN fetchDeviceData(d) ELSE d)

\* the retry timer fires
DialTimerFires ==
  LET d == widgets.dial IN
  /\ d.timers > 0
  /\ WidgetStep("dial", IF d.isMounted THEN fetchDeviceData([d EXCEPT !.timers = @ - 1])
                        ELSE [d EXCEPT !.timers = @ - 1])

\* fetchDeviceData after its fetch: an answer with traits, a 401 or 403,
\* or a rejection; the finally block clears isLoading while mounted
DialFetchAnswered(kind) ==
  LET d == [widgets.dial EXCEPT !.fetches = @ - 1]
      done(x) == IF x.isMounted THEN [x EXCEPT !.isLoading = FALSE] ELSE x
  IN
  /\ widgets.dial.fetches > 0
  /\ WidgetStep("dial",
       IF kind = "ok"
       THEN done(IF d.isMounted THEN [d EXCEPT !.deviceData = "rest", !.retryCount = 0] ELSE d)
       ELSE IF kind = "auth"
       THEN done(initializeSocket([d EXCEPT
                   !.open = IF d.socketRef = "connected" THEN @ - 1 ELSE @,
                   !.socketRef = "none"]))
       ELSE done([d EXCEPT !.retryCount = Min(@ + 1, MaxFetchRetries),
                           !.timers = IF d.retryCount + 1 < MaxFetchRetries THEN @ + 1 ELSE @]))

\* the effects of TemperatureGraph: socketInitializer up to its fetch, the
\* first fetchData and the interval
GraphMount ==
  LET g == widgets.graph IN
  /\ ~g.started
  /\ WidgetStep("graph", [g EXCEPT !.started = TRUE, !.isLoading = TRUE, !.socketFetch = TRUE,
                                   !.fetches = @ + 1, !.interval = TRUE])

\* the cleanups of both effects at unmount
GraphUnmount ==
  LET g == widgets.graph IN
  /\ g.started /\ ~g.unmounted
  /\ WidgetStep("graph", [g EXCEPT !.isMounted = FALSE, !.unmounted = TRUE,
                                   !.interval = FALSE,
                                   !.socketRef = IF @ = "open" THEN "closed" ELSE @,
                                   !.open = IF g.socketRef = "open" THEN @ - 1 ELSE @])

\* socketInitializer after fetch('/api/socket'): io() and socketRef.current
GraphSocketReady(ok) ==
  LET g == widgets.graph IN
  /\ g.socketFetch
  /\ WidgetStep("graph", IF ok THEN [g EXCEPT !.socketFetch = FALSE, !.socketRef = "open",
                                              !.open = @ + 1]
                         ELSE [g EXCEPT !.socketFetch = FALSE])

\* socket.on('device-<id>-update')
GraphSocketUpdate ==
  LET g == widgets.graph IN
  /\ g.socketRef = "open"
  /\ WidgetStep("graph", IF g.isMounted THEN [g EXCEPT !.data = "socket"] ELSE g)

\* fetchData up to its fetch
fetchData(g) == IF ~g.isMounted THEN g ELSE [g EXCEPT !.fetches = @ + 1]

GraphIntervalFires ==
  /\ widgets.graph.interval
  /\ WidgetStep("graph", fetchData(widgets.graph))

GraphTimerFires ==
  LET g == widgets.graph IN
  /\ g.timers > 0
  /\ WidgetStep("graph", IF g.isMounted THEN fetchData([g EXCEPT !.timers = @ - 1])
                         ELSE [g EXCEPT !.timers = @ - 1])

\* fetchData after its fetch: the history, or a rejection
GraphFetchAnswered(ok) ==
  LET g == [widgets.graph EXCEPT !.fetches = @ - 1]
      done(x) == IF x.isMounted THEN [x EXCEPT !.isLoading = FALSE] ELSE x
  IN
  /\ widgets.graph.fetches > 0
  /\ WidgetStep("graph",
       IF ok
       THEN done(IF g.isMounted THEN [g EXCEPT !.data = "history", !.retryCount = 0] ELSE g)
       ELSE done([g EXCEPT !.retryCount = Min(@ + 1, MaxFetchRetries),
                           !.timers = IF g.retryCount + 1 < MaxFetchRetries THEN @ + 1 ELSE @]))

NextWidgets ==
  \/ DialMount
  \/ DialUnmount
  \/ DialSocketConnects
  \/ DialSocketUpdate
  \/ DialIntervalFires
  \/ DialTimerFires
  \/ \E kind \in {"ok", "auth", "throw"} : DialFetchAnswered(kind)
  \/ GraphMount
  \/ GraphUnmount
  \/ \E ok \in BOOLEAN : GraphSocketReady(ok)
  \/ GraphSocketUpdate
  \/ GraphIntervalFires
  \/ GraphTimerFires
  \/ \E ok \in BOOLEAN : GraphFetchAnswered(ok)

\* ------------------------------------------ the name route step by step
\* the requests to POST /api/devices/:deviceId/name that are followed
NameRequests == {"r1", "r2"}

\* a request that has not arrived: nothing saved, nothing fetched, no
\* response on the wire, no exception that left the handler
NoNameRequest ==
  [save |-> "none",       \* req.session.save: none, pending or done
   main |-> "none",       \* the handler: none, fetching (at its await) or ended
   responses |-> <<>>,    \* the statuses of the responses sent
   escaped |-> FALSE]     \* an exception left the handler or the save callback

NoNameRuns == [exited |-> FALSE, requests |-> [r \in NameRequests |-> NoNameRequest]]

\* res.headersSent
headersSent(q) == q.responses # <<>>

\* res.status(status).json(...), or res.setHeader and res.json: once the
\* headers are sent Node throws ERR_HTTP_HEADERS_SENT and nothing is written
send(q, status) ==
  IF headersSent(q) THEN [q EXCEPT !.escaped = TRUE]
  ELSE [q EXCEPT !.responses = <<status>>]

NameStep(r, q) ==
  /\ ~nameRun.exited
  /\ nameRun' = [nameRun EXCEPT !.requests[r] = q]
  /\ UNCHANGED <<now, thermostat, wroteSince, lastListOkAt, last,
                 nextVars, retryRun, normRun, flights, clientVars>>

\* the name route up to its await: the tests of the token and of the name,
\* the name put in the session, req.session.save called and the forced
\* fetch started
NameStarts(r, s, deviceId, name) ==
  LET q == nameRun.requests[r] IN
  /\ q.main = "none"
  /\ IF ~TruthyStr(IF TruthyStr(session[s].tokens) THEN session[s].tokens
                     ELSE session[s].accessToken)
     THEN /\ NameStep(r, [send(q, 401) EXCEPT !.main = "ended"])
          /\ UNCHANGED session
     ELSE IF name = ""
     THEN /\ NameStep(r, [send(q, 400) EXCEPT !.main = "ended"])
          /\ UNCHANGED session
     ELSE /\ NameStep(r, [q EXCEPT !.save = "pending", !.main = "fetching"])
          /\ session' = [session EXCEPT ![s].customNames[deviceId] = Some(name)]
  /\ UNCHANGED <<deviceListCache, lastDeviceListFetch>>

\* the callback of req.session.save: with an error it answers 500
SaveCallsBack(r, err) ==
  LET q == nameRun.requests[r] IN
  /\ q.save = "pending"
  /\ NameStep(r, [(IF err THEN send(q, 500) ELSE q) EXCEPT !.save = "done"])
  /\ UNCHANGED <<session, deviceListCache, lastDeviceListFetch>>

\* the name route after its await: the list is sent, or the catch block
\* answers with the status of the error; a send that throws inside the try
\* block is caught and the send of the catch block throws again
NameFetchReturns(r, outcome) ==
  LET q == nameRun.requests[r]
      stored == IsOk(outcome) /\ outcome.hasDevices
  IN
  /\ q.main = "fetching"
  /\ NameStep(r, [send(q, IF IsOk(outcome) THEN 200 ELSE ErrorStatus(outcome))
                    EXCEPT !.main = "ended"])
  /\ deviceListCache' = IF stored THEN Some(UpstreamDevices) ELSE deviceListCache
  /\ lastDeviceListFetch' = IF stored THEN now ELSE lastDeviceListFetch
  /\ UNCHANGED session

\* an exception nobody catches ends the process, when the runtime is set
\* to do so
ProcessExits ==
  /\ ~nameRun.exited
  /\ \E r \in NameRequests : nameRun.requests[r].escaped
  /\ nameRun' = [nameRun EXCEPT !.exited = TRUE]
  /\ UNCHANGED <<now, expressVars, nextVars, retryRun, normRun, flights, clientVars>>


\* ------------------------------------- overlapping fetchDeviceList calls
\* no call is in flight and no call has written the cache slot
NoFlights == [inFlight |-> {}, writer |-> None]

\* fetchDeviceList up to its await: `now` is read, the cache is passed
\* over, and the upstream GET leaves
FetchStarts(forceRefresh) ==
  /\ ~useCache(forceRefresh)
  /\ now \notin flights.inFlight
  /\ Cardinality(flights.inFlight) < MaxInFlight
  /\ flights' = [flights EXCEPT !.inFlight = @ \cup {now}]
  /\ UNCHANGED <<now, expressVars, nextVars, retryRun, normRun, nameRun, clientVars>>

\* fetchDeviceList after its await, for the call that read `now` as
\* startedAt: a list is stored with that timestamp, anything else leaves
\* the slot alone
FetchReturns(startedAt, outcome) ==
  /\ startedAt \in flights.inFlight
  /\ IF IsOk(outcome) /\ outcome.hasDevices
     THEN /\ deviceListCache' = Some(UpstreamDevices)
          /\ lastDeviceListFetch' = startedAt
          /\ flights' = [inFlight |-> flights.inFlight \ {startedAt},
                         writer |-> Some(startedAt)]
     ELSE /\ flights' = [flights EXCEPT !.inFlight = @ \ {startedAt}]
          /\ UNCHANGED <<deviceListCache, lastDeviceListFetch>>
  /\ UNCHANGED <<now, session, thermostat, wroteSince, lastListOkAt, last,
                 nextVars, retryRun, normRun, nameRun, clientVars>>

\* ----------------------------------------------------------------- Init
\* the state after start-up, with the session store holding the sessions
\* of the given browsers
InitWith(browsers) ==
  /\ now = 0
  /\ deviceListCache = None
  /\ lastDeviceListFetch = 0
  /\ session = [s \in browsers |-> EmptySession]
  /\ thermostat = InitThermostat("HEAT")
  /\ wroteSince = FALSE
  /\ lastListOkAt = None
  /\ last = [op |-> "init", sess |-> "", status |-> 0, body |-> <<>>, calls |-> <<>>,
             fetch |-> NoFetch, error |-> "", input |-> None, n |-> 0]
  /\ jwt = None
  /\ authLast = NoAuthRequest
  /\ retryRun = None
  /\ normRun = None
  /\ flights = NoFlights
  /\ nameRun = NoNameRuns
  /\ app = InitApp
  /\ widgets = [dial |-> InitDial, graph |-> InitGraph]

Init == InitWith(Sessions)

\* ------------------------------------------------------------- actions
\* the clock advances by one second
Tick ==
  /\ now + 1000 <= MaxTime
  /\ now' = now + 1000
  /\ UNCHANGED <<expressVars, nextVars, pureVars, clientVars>>

\* app.get('/api/devices')
GetDevices(s, outs) ==
  LET f == fetchDeviceList(FALSE, outs) IN
  IF ~TruthyStr(AccessToken(s))
  THEN /\ last' = Refused("list", s, 401, "Please login first", <<>>)
       /\ UNCHANGED <<now, deviceListCache, lastDeviceListFetch, session,
                      thermostat, wroteSince, lastListOkAt>>
  ELSE /\ now + f.delay <= MaxTime
       /\ now' = now + f.delay
       /\ deviceListCache' = f.cache
       /\ lastDeviceListFetch' = f.fetchedAt
       /\ wroteSince' = FALSE
       /\ lastListOkAt' = IF f.calls # <<>> /\ ~f.threw THEN Some(now) ELSE lastListOkAt
       /\ last' = [Request("list", s,
                           IF f.threw THEN ErrorStatus(f.error) ELSE 200,
                           IF f.threw THEN <<>> ELSE ReadList(session[s].customNames, f.value),
                           ListCalls(f.calls), Fetch(FALSE, f))
                     EXCEPT !.error = IF ~f.threw THEN ""
                                      ELSE IF f.error.status = 401
                                      THEN "Session expired. Please login again."
                                      ELSE "Failed to fetch devices"]
       /\ UNCHANGED <<session, thermostat>>

\* app.post('/api/devices/:deviceId/name')
PostName(s, deviceId, name, outs) ==
  LET quiet == UNCHANGED <<now, deviceListCache, lastDeviceListFetch, session,
                           thermostat, wroteSince, lastListOkAt>>
      f == fetchDeviceList(TRUE, outs)
  IN
  IF ~TruthyStr(AccessToken(s))
  THEN last' = Refused("name", s, 401, "Please login first", <<>>) /\ quiet
  ELSE IF name = ""
  THEN last' = Refused("name", s, 400, "Name is required", <<>>) /\ quiet
  ELSE /\ now + f.delay <= MaxTime
       /\ now' = now + f.delay
       /\ session' = [session EXCEPT ![s].customNames[deviceId] = Some(name)]
       /\ deviceListCache' = f.cache
       /\ lastDeviceListFetch' = f.fetchedAt
       /\ wroteSince' = (wroteSince \/ ~f.threw)
       /\ lastListOkAt' = IF f.threw THEN lastListOkAt ELSE None
       /\ last' = [Request("name", s,
                           IF f.threw THEN ErrorStatus(f.error) ELSE 200,
                           IF f.threw THEN <<>>
                           ELSE NameList(session'[s].customNames, f.value),
                           ListCalls(f.calls), Fetch(TRUE, f))
                     EXCEPT !.error = IF f.threw THEN "Failed to update device name" ELSE ""]
       /\ UNCHANGED thermostat

\* the body's `temperature` in the requests of the cache model
TempRequests == {Num(t) : t \in TempInputs}

\* the value of a decimal digit
DigitVal == ("0" :> 0) @@ ("1" :> 1) @@ ("2" :> 2) @@ ("3" :> 3) @@ ("4" :> 4)
            @@ ("5" :> 5) @@ ("6" :> 6) @@ ("7" :> 7) @@ ("8" :> 8) @@ ("9" :> 9)

\* the number of leading digits of cs from position i on
RECURSIVE DigitsFrom(_, _)
DigitsFrom(cs, i) ==
  IF i > Len(cs) \/ cs[i] \notin DOMAIN DigitVal THEN 0 ELSE 1 + DigitsFrom(cs, i + 1)

\* the number the first n characters of cs denote
RECURSIVE DecimalOf(_, _)
DecimalOf(cs, n) == IF n = 0 THEN 0 ELSE DecimalOf(cs, n - 1) * 10 + DigitVal[cs[n]]

\* parseFloat: a number is itself; of a string the longest numeric prefix is
\* read and the rest is ignored; None is NaN
parseFloat(v) ==
  IF v.kind = "number" THEN Some(v.num)
  ELSE IF v.kind = "string" /\ DigitsFrom(v.str, 1) > 0
       THEN Some(DecimalOf(v.str, DigitsFrom(v.str, 1)))
  ELSE None

\* the range check of the temperature route
InRange(tempValue) == ~(tempValue < 9 \/ tempValue > 32)

\* the checks of the temperature route on the body's `temperature`: the error
\* answered, or "" when the value passes
temperatureError(temperature) ==
  IF temperature.kind \in {"undefined", "null"} THEN "Temperature is required"
  ELSE IF ~IsSome(parseFloat(temperature)) THEN "Invalid temperature value"
  ELSE IF ~InRange(parseFloat(temperature)[1]) THEN "Temperature out of range"
  ELSE ""

\* a route that has no refusal of its own for ECO
ecoRejectedNever(mode) == FALSE

\* if (mode === 'ECO')
ecoRejected(mode) == mode = "ECO"

\* a choice of command with the two modes the wrong way round
setpointCommandSwapped(mode) ==
  IF mode = "HEAT" THEN Some([command |-> "SetCool", field |-> "coolCelsius"])
  ELSE IF mode = "COOL" THEN Some([command |-> "SetHeat", field |-> "heatCelsius"])
  ELSE None

\* the command and the parameter the temperature route chose for a mode;
\* None when it answers "Unsupported thermostat mode"
setpointCommand(mode) ==
  IF mode = "COOL" THEN Some([command |-> "SetCool", field |-> "coolCelsius"])
  ELSE IF mode = "HEAT" THEN Some([command |-> "SetHeat", field |-> "heatCelsius"])
  ELSE None

\* app.post('/api/devices/:deviceId/temperature'); o1, o2, o3 answer the
\* device GET, the executeCommand POST and the list GET
PostTemperature(s, deviceId, temperature) ==
  LET mode == StrOr(thermostat.mode, "HEAT")
      tempValue == parseFloat(temperature)[1]
      chosen == setpointCommand(mode)[1]
      c1(o1) == Call("GET /devices/id", o1, "", None)
      c2(o2) == Call("POST executeCommand", o2, chosen.command,
                     Some([field |-> chosen.field, value |-> tempValue]))
      c3(o3) == Call("GET /devices", o3, "", None)
      written == [thermostat EXCEPT ![chosen.field] = Some(tempValue)]
      quiet == UNCHANGED <<now, deviceListCache, lastDeviceListFetch, session,
                           thermostat, wroteSince, lastListOkAt>>
      refused(status, error, calls) ==
        [Refused("temperature", s, status, error, calls) EXCEPT !.input = Some(temperature)]
      failed(o, calls) == refused(ErrorStatus(o), "Failed to update temperature", calls)
  IN
  IF ~TruthyStr(AccessToken(s))
  THEN last' = refused(401, "Please login first", <<>>) /\ quiet
  ELSE IF temperatureError(temperature) # ""
  THEN last' = refused(400, temperatureError(temperature), <<>>) /\ quiet
  ELSE \E o1 \in Outcomes :
    IF ~IsOk(o1)
    THEN last' = failed(o1, <<c1(o1)>>) /\ quiet
    ELSE IF ecoRejected(mode)
    THEN last' = refused(400, "Cannot set temperature while in ECO mode", <<c1(o1)>>) /\ quiet
    ELSE IF ~IsSome(setpointCommand(mode))
    THEN last' = refused(400, "Unsupported thermostat mode", <<c1(o1)>>) /\ quiet
    ELSE \E o2 \in Outcomes :
      IF ~IsOk(o2)
      THEN last' = failed(o2, <<c1(o1), c2(o2)>>) /\ quiet
      ELSE \E o3 \in Outcomes :
        /\ thermostat' = written
        /\ wroteSince' = (wroteSince \/ IsOk(o3))
        /\ lastListOkAt' = IF IsOk(o3) THEN None ELSE lastListOkAt
        /\ last' = IF ~IsOk(o3)
                   THEN failed(o3, <<c1(o1), c2(o2), c3(o3)>>)
                   ELSE [Request("temperature", s, 200,
                                 IF o3.hasDevices
                                 THEN WriteList(session[s].customNames, <<Thermo(written), Camera>>)
                                 ELSE <<>>,
                                 <<c1(o1), c2(o2), c3(o3)>>, NoFetch)
                           EXCEPT !.input = Some(temperature)]
        /\ UNCHANGED <<now, deviceListCache, lastDeviceListFetch, session>>

\* app.post('/api/devices/:deviceId/mode'); o2, o3 answer the executeCommand
\* POST and the list GET
PostMode(s, deviceId, mode) ==
  LET c2(o2) == Call("POST executeCommand", o2, "SetMode", None)
      c3(o3) == Call("GET /devices", o3, "", None)
      written == [thermostat EXCEPT !.mode = Some(mode)]
      quiet == UNCHANGED <<now, deviceListCache, lastDeviceListFetch, session,
                           thermostat, wroteSince, lastListOkAt>>
  IN
  IF ~TruthyStr(AccessToken(s))
  THEN last' = Refused("mode", s, 401, "Please login first", <<>>) /\ quiet
  ELSE IF mode = ""
  THEN last' = Refused("mode", s, 400, "Mode is required", <<>>) /\ quiet
  ELSE \E o2 \in Outcomes :
    IF ~IsOk(o2)
    THEN last' = Refused("mode", s, ErrorStatus(o2), "Failed to update mode", <<c2(o2)>>) /\ quiet
    ELSE \E o3 \in Outcomes :
      /\ thermostat' = written
      /\ wroteSince' = (wroteSince \/ IsOk(o3))
      /\ lastListOkAt' = IF IsOk(o3) THEN None ELSE lastListOkAt
      /\ last' = [Request("mode", s,
                          IF IsOk(o3) THEN 200 ELSE ErrorStatus(o3),
                          IF IsOk(o3) /\ o3.hasDevices
                          THEN WriteList(session[s].customNames, <<Thermo(written), Camera>>)
                          ELSE <<>>,
                          <<c2(o2), c3(o3)>>, NoFetch)
                    EXCEPT !.error = IF IsOk(o3) THEN "" ELSE "Failed to update mode"]
      /\ UNCHANGED <<now, deviceListCache, lastDeviceListFetch, session>>

\* the thermostat's mode as the device API reports it changes outside the
\* backend (on the device, in another app); None: the device reports no
\* ThermostatMode trait
DeviceChanges(mode) ==
  /\ thermostat.mode # mode
  /\ thermostat' = [thermostat EXCEPT !.mode = mode]
  /\ UNCHANGED <<now, deviceListCache, lastDeviceListFetch, session,
                 wroteSince, lastListOkAt, last>>

\* app.get('/auth/login'); state is the value Math.random() gives
AuthLogin(s, state) ==
  /\ session' = [session EXCEPT ![s].tokens = None, ![s].accessToken = None,
                                ![s].oauthState = Some(state)]
  /\ UNCHANGED <<now, deviceListCache, lastDeviceListFetch, thermostat,
                 wroteSince, lastListOkAt, last>>

\* app.get('/auth/callback'): the query's code, error and state, and whether
\* the token exchange answers with an access token
AuthCallback(s, hasCode, hasError, state, tokenOk) ==
  /\ ~hasError /\ hasCode /\ state = session[s].oauthState /\ tokenOk
  /\ session' = [session EXCEPT ![s].tokens = Some("tok"),
                                ![s].accessToken = Some("tok")]
  /\ UNCHANGED <<now, deviceListCache, lastDeviceListFetch, thermostat,
                 wroteSince, lastListOkAt, last>>

\* app.get('/auth/callback') with its answer: the first failing test throws
\* and redirects to /auth/login, otherwise the tokens are stored and the
\* browser is sent to /
callbackError(s, hasCode, hasError, state, tokenOk) ==
  IF hasError THEN "OAuth error"
  ELSE IF ~hasCode THEN "No authorization code provided"
  ELSE IF state # session[s].oauthState THEN "Invalid state parameter"
  ELSE IF ~tokenOk THEN "No access token received from Google"
  ELSE ""

AuthCallbackAnswered(s, hasCode, hasError, state, tokenOk) ==
  LET error == callbackError(s, hasCode, hasError, state, tokenOk) IN
  /\ session' = IF error = ""
                 THEN [session EXCEPT ![s].tokens = Some("tok"),
                                      ![s].accessToken = Some("tok")]
                 ELSE session
  /\ last' = [Request("callback", s, 302,
                       IF error = "" THEN <<"/">> ELSE <<"/auth/login">>, <<>>, NoFetch)
                 EXCEPT !.error = error, !.input = state]
  /\ UNCHANGED <<now, deviceListCache, lastDeviceListFetch, thermostat,
                 wroteSince, lastListOkAt>>

\* app.get('/auth/logout'): req.session.destroy
AuthLogout(s) ==
  /\ session' = [session EXCEPT ![s] = EmptySession]
  /\ UNCHANGED <<now, deviceListCache, lastDeviceListFetch, thermostat,
                 wroteSince, lastListOkAt, last>>

\* ------------------------------------------------------ Next.js backend
\* the token the jwt callback keeps: accessToken and refreshToken may be
\* undefined, error is set by a failed refresh
Token(accessToken, refreshToken, accessTokenExpires, error) ==
  [accessToken |-> accessToken, refreshToken |-> refreshToken,
   accessTokenExpires |-> accessTokenExpires, error |-> error]

\* what the OAuth token endpoint does with a refresh request: it answers 2xx
\* with {access_token, expires_in}, answers non-2xx, or the fetch throws;
\* latency is the time the call takes
RefreshAnswers ==
  {[kind |-> "ok", access_token |-> "a1", expires_in |-> e, latency |-> l] :
     e \in {1, 2}, l \in {0, 1000}}
  \cup {[kind |-> k, access_token |-> "", expires_in |-> 0, latency |-> 0] :
          k \in {"notok", "neterr"}}

\* the jwt callback at sign-in (account && user): the token takes the
\* account's tokens; expires_at is in seconds
accountToken(token, account) ==
  [token |-> [token EXCEPT
                !.accessToken = account.access_token,
                !.refreshToken = account.refresh_token,
                !.accessTokenExpires = IF TruthyNum(account.expires_at)
                                       THEN account.expires_at[1] * 1000
                                       ELSE now + 3600 * 1000],
   calls |-> 0, elapsed |-> 0]

\* a refresh that takes expires_in for milliseconds
refreshAccessTokenUnscaled(token, refresh) ==
  IF refresh.kind = "ok"
  THEN [token |-> [token EXCEPT
                     !.accessToken = Some(refresh.access_token),
                     !.accessTokenExpires =
                        (now + refresh.latency) + refresh.expires_in],
        calls |-> 1, elapsed |-> refresh.latency]
  ELSE [token |-> [token EXCEPT !.error = Some("RefreshAccessTokenError")],
        calls |-> 1, elapsed |-> refresh.latency]

\* "Access token has expired, try to refresh it": one POST to the token
\* endpoint; Date.now() is read again when the answer is in
refreshAccessToken(token, refresh) ==
  IF refresh.kind = "ok"
  THEN [token |-> [token EXCEPT
                     !.accessToken = Some(refresh.access_token),
                     !.accessTokenExpires =
                        (now + refresh.latency) + refresh.expires_in * 1000],
        calls |-> 1, elapsed |-> refresh.latency]
  ELSE [token |-> [token EXCEPT !.error = Some("RefreshAccessTokenError")],
        calls |-> 1, elapsed |-> refresh.latency]

\* a jwt callback without the "has not expired yet" return
jwtCallbackAlwaysRefreshes(token, account, refresh) ==
  IF IsSome(account) THEN accountToken(token, account[1])
  ELSE refreshAccessToken(token, refresh)

\* authOptions.callbacks.jwt: the token returned, the number of calls made
\* to the token endpoint and the time spent in them
jwtCallback(token, account, refresh) ==
  IF IsSome(account) THEN accountToken(token, account[1])
  ELSE IF now < token.accessTokenExpires
  THEN [token |-> token, calls |-> 0, elapsed |-> 0]
  ELSE refreshAccessToken(token, refresh)

\* authOptions.callbacks.session: session.accessToken = token.accessToken
sessionCallback(token) == [accessToken |-> token.accessToken]

\* the routes of the Next.js backend that call the device API
NextRoutes == {"devices", "device", "history"}

\* the body of an answer of the device API: whether JSON.parse accepts it,
\* the words of error.message when the body has one, the words of the whole
\* text, and for a 200 of the list whether it has a `devices` property
Body(json, message, text, hasDevices) ==
  [json |-> json, message |-> message, text |-> text, hasDevices |-> hasDevices]

\* error bodies: Google's JSON error with a message that names consent, that
\* names permission, that names neither; a JSON body that names consent
\* outside error.message; a body that is not JSON, naming consent or not
ConsentMessage == Body(TRUE, Some(<<"user", "consent", "required">>), <<"user", "consent", "required">>, FALSE)
PermissionMessage == Body(TRUE, Some(<<"permission", "denied">>), <<"permission", "denied">>, FALSE)
PlainMessage == Body(TRUE, Some(<<"api", "disabled">>), <<"api", "disabled">>, FALSE)
ConsentElsewhere == Body(TRUE, None, <<"consent", "required">>, FALSE)
ConsentPage == Body(FALSE, None, <<"consent", "required">>, FALSE)
PlainPage == Body(FALSE, None, <<"forbidden">>, FALSE)
ErrorBodies == {ConsentMessage, PermissionMessage, PlainMessage, ConsentElsewhere, ConsentPage, PlainPage}

DevicesBody == Body(TRUE, None, <<>>, TRUE)
NoDevicesBody == Body(TRUE, None, <<>>, FALSE)

\* an answer of the device API; status 0: the fetch rejects
Answer(status, body) == [status |-> status, body |-> body]

\* the answers of the device API to those routes
NextAnswers ==
  {Answer(200, DevicesBody)} \cup {Answer(st, PlainMessage) : st \in {0, 401, 403, 404, 500}}

\* the answers the error handling of the routes is tried with
GatewayAnswers ==
  {Answer(200, DevicesBody), Answer(200, NoDevicesBody), Answer(0, PlainPage)}
    \cup {Answer(st, b) : st \in {401, 403, 404, 429, 500}, b \in ErrorBodies}

\* String.prototype.includes on a text given by its words
includes(text, word) == \E i \in 1..Len(text) : text[i] = word

\* what a route answers: the status, the `error` of the body, requiresReauth
\* (None: the body has none) and the upstream body when `details` carries it
Response(status, error, requiresReauth, details) ==
  [status |-> status, error |-> error, requiresReauth |-> requiresReauth, details |-> details]

\* the catch of a route: status 500
caught == Response(500, "unexpected error", None, None)

\* errorBody.error?.message?.includes('consent') ||
\* errorBody.error?.message?.includes('permission'); undefined without a message
isConsentRequired(errorBody) ==
  IF ~IsSome(errorBody.message) THEN None
  ELSE Some(includes(errorBody.message[1], "consent") \/ includes(errorBody.message[1], "permission"))

\* GET /api/devices, if (!response.ok): JSON.parse throws on a body that is
\* not JSON, and the route's catch answers
devicesError(answer) ==
  IF answer.status = 403
  THEN IF ~answer.body.json THEN caught
       ELSE Response(403, "Permission denied", isConsentRequired(answer.body), None)
  ELSE IF answer.status = 401 THEN Response(401, "Authentication required", Some(TRUE), None)
  ELSE IF answer.status = 404 THEN Response(404, "Project not found", None, None)
  ELSE Response(answer.status, "API request failed", None, Some(answer.body))

\* GET /api/devices/[deviceId] and the temperature history, if (!response.ok)
deviceError(answer) == Response(answer.status, "API request failed", None, None)

\* the answer of a route to the answer of the device API
routeAnswer(route, answer) ==
  IF answer.status = 0 THEN caught
  ELSE IF answer.status # 200
       THEN IF route = "devices" THEN devicesError(answer) ELSE deviceError(answer)
  ELSE IF route = "devices" /\ ~answer.body.hasDevices
       THEN Response(200, "No devices data available", None, None)
  ELSE Response(200, "", None, None)

\* what a request did: the route, the response status, the calls made to the
\* token endpoint and its answer, session.accessToken, and the token sent to
\* the device API with whether it had expired; n is the parity of the number
\* of requests handled
AuthRequest(route, status, refreshCalls, refresh, sess, sent) ==
  [route |-> route, status |-> status, refreshCalls |-> refreshCalls,
   refresh |-> refresh, session |-> sess, sent |-> sent, error |-> "",
   requiresReauth |-> None, details |-> None, upstream |-> None, n |-> 1 - authLast.n]

\* a request answered without a call to the device API
Unauthorized(route, refreshCalls, refresh, sess) ==
  [AuthRequest(route, 401, refreshCalls, refresh, sess, None) EXCEPT !.error = "Unauthorized"]

\* a request answered after a call to the device API
Answered(route, refreshCalls, refresh, sess, sent, answer) ==
  LET resp == routeAnswer(route, answer) IN
  [AuthRequest(route, resp.status, refreshCalls, refresh, sess, sent)
     EXCEPT !.error = resp.error, !.requiresReauth = resp.requiresReauth,
            !.details = resp.details, !.upstream = Some(answer)]

\* sign-in: the jwt callback runs with the provider's account
SignIn(account) ==
  LET r == jwtCallback(Token(None, None, 0, None), Some(account), NoRefreshAnswer) IN
  /\ jwt' = Some(r.token)
  /\ authLast' = AuthRequest("signin", 200, r.calls, NoRefreshAnswer, None, None)
  /\ UNCHANGED <<now, expressVars, pureVars, clientVars>>

\* signOut: the session cookie is dropped
SignOut ==
  /\ IsSome(jwt)
  /\ jwt' = None
  /\ authLast' = AuthRequest("signout", 200, 0, NoRefreshAnswer, None, None)
  /\ UNCHANGED <<now, expressVars, pureVars, clientVars>>

\* GET of a device route: getServerSession runs the jwt callback on the
\* cookie's token and then the session callback; the route answers 401
\* without session.accessToken and else calls the device API with it
NextRoute(route, refresh, answer) ==
  IF ~IsSome(jwt)
  THEN /\ authLast' = Unauthorized(route, 0, NoRefreshAnswer, None)
       /\ UNCHANGED <<now, jwt, expressVars, pureVars, clientVars>>
  ELSE LET r == jwtCallback(jwt[1], None, refresh)
           sess == sessionCallback(r.token)
           t == now + r.elapsed
       IN
       /\ refresh.kind = "ok" => IsSome(jwt[1].refreshToken)
       /\ t <= MaxTime
       /\ now' = t
       /\ jwt' = Some(r.token)
       /\ authLast' =
            IF ~TruthyStr(sess.accessToken)
            THEN Unauthorized(route, r.calls,
                              IF r.calls = 0 THEN NoRefreshAnswer ELSE refresh, sess.accessToken)
            ELSE Answered(route, r.calls,
                          IF r.calls = 0 THEN NoRefreshAnswer ELSE refresh, sess.accessToken,
                          Some([token |-> sess.accessToken[1],
                                expired |-> ~(t < r.token.accessTokenExpires)]),
                          answer)
       /\ UNCHANGED <<expressVars, pureVars, clientVars>>

\* what the provider hands to the sign-in: expires_at is in seconds
Accounts ==
  {[access_token |-> Some("a0"), refresh_token |-> rt, expires_at |-> ea] :
     rt \in {None, Some("r0")},
     ea \in {None} \cup {Some((now \div 1000) + d) : d \in {1, 2}}}

\* ------------------------------------------------------ backOff on its own
\* the answers a call wrapped in backOff may get, of every class of status
RetryStatuses == {200, 0, 401, 403, 404, 429, 500}
RetryOutcomes == [1..numOfAttempts -> {[status |-> st, hasDevices |-> st = 200] : st \in RetryStatuses}]

RunBackOff(outs) ==
  /\ retryRun' = Some([outs |-> outs, result |-> backOff(outs),
                        threw |-> fetchDeviceList(TRUE, outs).threw])
  /\ UNCHANGED <<now, expressVars, nextVars, normRun, flights, nameRun, clientVars>>

\* --------------------------------------------------------- specifications
Next ==
  \/ Tick
  \/ \E s \in Sessions, outs \in AttemptOutcomes :
       GetDevices(s, outs) /\ UNCHANGED <<nextVars, pureVars, clientVars>>
  \/ \E s \in Sessions, id \in DeviceIds, name \in NameInputs, outs \in AttemptOutcomes :
       PostName(s, id, name, outs) /\ UNCHANGED <<nextVars, pureVars, clientVars>>
  \/ \E s \in Sessions, id \in DeviceIds, t \in TempRequests :
       PostTemperature(s, id, t) /\ UNCHANGED <<nextVars, pureVars, clientVars>>
  \/ \E s \in Sessions, id \in DeviceIds, m \in ModeInputs :
       PostMode(s, id, m) /\ UNCHANGED <<nextVars, pureVars, clientVars>>
  \/ \E s \in Sessions, hasCode, hasError, tokenOk \in BOOLEAN,
        state \in {None, Some("x1"), Some("x2")} :
       AuthCallback(s, hasCode, hasError, state, tokenOk) /\ UNCHANGED <<nextVars, pureVars, clientVars>>

\* the Express backend: the device cache and the routes
Spec == Init /\ [][Next]_vars

\* a thermostat in an unheated room: 0 degrees Celsius around it
ColdThermostat == [InitThermostat("HEAT") EXCEPT !.ambientTemperatureCelsius = Some(0)]

\* the devices an upstream list is made of: a thermostat with traits, one
\* without, one that reports 0 degrees, one that heats and cools, a camera
\* and a doorbell
ListedDevices ==
  {Thermo(InitThermostat("HEAT")),
   [name |-> DevicePath("t4"), type |-> THERMOSTAT, traits |-> InitThermostat("HEATCOOL")],
   [name |-> DevicePath("t2"), type |-> THERMOSTAT, traits |-> NoTraits],
   [name |-> DevicePath("t3"), type |-> THERMOSTAT, traits |-> ColdThermostat],
   Camera,
   [name |-> DevicePath("d1"), type |-> "sdm.devices.types.DOORBELL", traits |-> NoTraits]}

\* the device lists of at most MaxDevices devices, in every order
DeviceLists == UNION {[1..n -> ListedDevices] : n \in 0..MaxDevices}

\* the normalisation of GET /api/devices, and that of the temperature and
\* mode routes, applied to a device list
Normalize(customNames, devices) ==
  /\ normRun' = Some([devices |-> devices, customNames |-> customNames,
                       records |-> ReadList(customNames, devices),
                       written |-> WriteList(customNames, devices)])
  /\ UNCHANGED <<now, expressVars, nextVars, retryRun, flights, nameRun, clientVars>>

NextList ==
  \E name \in {None, Some("Den")}, devices \in DeviceLists :
    Normalize([id \in DeviceIds |-> name], devices)

\* the normalisation of GET /api/devices applied to every device list
SpecList == Init /\ [][NextList]_vars

\* the polling loop of the client App.js
SpecApp == Init /\ [][NextApp]_vars

NextOverlap ==
  \/ Tick
  \/ \E forceRefresh \in BOOLEAN : FetchStarts(forceRefresh)
  \/ \E startedAt \in flights.inFlight, outcome \in Outcomes : FetchReturns(startedAt, outcome)
  \/ \E m \in {Some("HEAT"), Some("COOL")} :
       DeviceChanges(m) /\ UNCHANGED <<nextVars, pureVars, clientVars>>

\* the values Math.random() gives /auth/login and the state a callback
\* carries: none, either of them, or another one
LoginStates == {"x1", "x2"}
CallbackStates == {None, Some("x1"), Some("x2"), Some("x3")}

NextOAuth ==
  \/ \E s \in Browsers, state \in LoginStates :
       AuthLogin(s, state) /\ UNCHANGED <<nextVars, pureVars, clientVars>>
  \/ \E s \in Browsers, hasCode, hasError, tokenOk \in BOOLEAN, state \in CallbackStates :
       AuthCallbackAnswered(s, hasCode, hasError, state, tokenOk)
         /\ UNCHANGED <<nextVars, pureVars, clientVars>>
  \/ \E s \in Browsers :
       AuthLogout(s) /\ UNCHANGED <<nextVars, pureVars, clientVars>>

\* the OAuth routes of the Express backend used from two browsers
SpecOAuth == InitWith(Browsers) /\ [][NextOAuth]_vars

NextNameSteps ==
  \/ \E s \in Sessions :
       AuthCallback(s, TRUE, FALSE, None, TRUE) /\ UNCHANGED <<nextVars, pureVars, clientVars>>
  \/ \E r \in NameRequests, s \in Sessions, id \in DeviceIds, name \in NameInputs :
       NameStarts(r, s, id, name)
  \/ \E r \in NameRequests, err \in BOOLEAN : SaveCallsBack(r, err)
  \/ \E r \in NameRequests, outcome \in Outcomes : NameFetchReturns(r, outcome)
  \/ ProcessExits

\* the name route of the Express backend between its awaits
SpecNameSteps == Init /\ [][NextNameSteps]_vars

\* fetchDeviceList calls that overlap
SpecOverlap == Init /\ [][NextOverlap]_vars

\* the lifecycles of TemperatureDial and TemperatureGraph
SpecWidgets == Init /\ [][NextWidgets]_vars

\* the setpoint and mode controls of the client App.js
SpecCommands == Init /\ [][NextCommands]_vars

\* the names the browsers give the thermostat
GivenNames == {"Den", "Loft"}

NextNames ==
  \/ \E s \in Browsers :
       AuthCallback(s, TRUE, FALSE, None, TRUE) /\ UNCHANGED <<nextVars, pureVars, clientVars>>
  \/ \E s \in Browsers :
       AuthLogin(s, "x1") /\ UNCHANGED <<nextVars, pureVars, clientVars>>
  \/ \E s \in Browsers :
       AuthLogout(s) /\ UNCHANGED <<nextVars, pureVars, clientVars>>
  \/ \E s \in Browsers, id \in DeviceIds, name \in GivenNames :
       PostName(s, id, name, [i \in 1..numOfAttempts |-> OkOutcome])
         /\ UNCHANGED <<nextVars, pureVars, clientVars>>
  \/ \E s \in Browsers :
       GetDevices(s, [i \in 1..numOfAttempts |-> OkOutcome])
         /\ UNCHANGED <<nextVars, pureVars, clientVars>>
  \/ \E s \in Browsers, id \in DeviceIds :
       PostTemperature(s, id, Num(20)) /\ UNCHANGED <<nextVars, pureVars, clientVars>>
  \/ \E s \in Browsers, id \in DeviceIds :
       PostMode(s, id, "COOL") /\ UNCHANGED <<nextVars, pureVars, clientVars>>

\* the Express routes used from two browsers that name the thermostat
SpecNames == InitWith(Browsers) /\ [][NextNames]_vars

NextWrite ==
  \/ \E s \in Sessions, hasCode, hasError, tokenOk \in BOOLEAN, state \in {None, Some("x1")} :
       AuthCallback(s, hasCode, hasError, state, tokenOk) /\ UNCHANGED <<nextVars, pureVars, clientVars>>
  \/ \E s \in Sessions, id \in DeviceIds, t \in TempBodies :
       PostTemperature(s, id, t) /\ UNCHANGED <<nextVars, pureVars, clientVars>>
  \/ \E s \in Sessions, id \in DeviceIds, m \in Modes \cup {""} :
       PostMode(s, id, m) /\ UNCHANGED <<nextVars, pureVars, clientVars>>
  \/ \E m \in {None} \cup {Some(x) : x \in Modes} :
       DeviceChanges(m) /\ UNCHANGED <<nextVars, pureVars, clientVars>>

\* the write routes of the Express backend with every kind of request body
\* and every mode of the thermostat
SpecWrite == Init /\ [][NextWrite]_vars

NextAuthStep ==
  \/ Tick
  \/ \E account \in Accounts : SignIn(account)
  \/ SignOut
  \/ \E route \in NextRoutes, refresh \in RefreshAnswers, answer \in NextAnswers :
       NextRoute(route, refresh, answer)

\* the Next.js backend: the token callbacks and the device routes
SpecAuth == Init /\ [][NextAuthStep]_vars

NextGateway ==
  \/ \E account \in Accounts : SignIn(account)
  \/ SignOut
  \/ \E route \in NextRoutes, answer \in GatewayAnswers :
       NextRoute(route, NoRefreshAnswer, answer)

\* the device routes of the Next.js backend with every kind of answer of the
\* device API; no time passes, so that no token expires
SpecGateway == Init /\ [][NextGateway]_vars

\* what the provider hands to a sign-in that yields no access token
AnonAccounts ==
  {[access_token |-> None, refresh_token |-> rt, expires_at |-> None] : rt \in {None, Some("r0")}}

NextAnon ==
  \/ \E s \in Sessions : AuthLogin(s, "x1") /\ UNCHANGED <<nextVars, pureVars, clientVars>>
  \/ \E s \in Sessions : AuthLogout(s) /\ UNCHANGED <<nextVars, pureVars, clientVars>>
  \/ \E s \in Sessions, outs \in AttemptOutcomes :
       GetDevices(s, outs) /\ UNCHANGED <<nextVars, pureVars, clientVars>>
  \/ \E s \in Sessions, id \in DeviceIds, name \in NameInputs, outs \in AttemptOutcomes :
       PostName(s, id, name, outs) /\ UNCHANGED <<nextVars, pureVars, clientVars>>
  \/ \E s \in Sessions, id \in DeviceIds, t \in TempBodies :
       PostTemperature(s, id, t) /\ UNCHANGED <<nextVars, pureVars, clientVars>>
  \/ \E s \in Sessions, id \in DeviceIds, m \in ModeInputs :
       PostMode(s, id, m) /\ UNCHANGED <<nextVars, pureVars, clientVars>>
  \/ \E account \in AnonAccounts : SignIn(account)
  \/ SignOut
  \/ \E route \in NextRoutes, answer \in NextAnswers :
       NextRoute(route, NoRefreshAnswer, answer)

\* both backends before any login has given a session an access token
SpecAnon == Init /\ [][NextAnon]_vars

NextRetry == \E outs \in RetryOutcomes : RunBackOff(outs)

\* backOff applied to every sequence of answers
SpecRetry == Init /\ [][NextRetry]_vars

\* ------------------------------------------------------------ properties
\* a step in which the Express backend handles a request
RequestStep == last'.n # last.n

\* a step in which GET /api/devices calls fetchDeviceList
ListStep == RequestStep /\ last'.op = "list" /\ last'.fetch.called

\* a step in which a route calls fetchDeviceList
FetchStep == RequestStep /\ last'.fetch.called

\* the request got a 2xx answer from upstream GET /devices
GotList(r) == \E i \in 1..Len(r.calls) : r.calls[i].ep = "GET /devices" /\ r.calls[i].status = 200

\* a step in which a device route of the Next.js backend handles a request
RouteStep == authLast'.n # authLast.n /\ authLast'.route \in NextRoutes

\* C1: after a successful write (setpoint, mode or name change) the next
\* GET /api/devices goes upstream for the list, whatever the cache entry's age.
C1_ListAfterWriteGoesUpstream ==
  [][(ListStep /\ wroteSince) => last'.calls # <<>>]_vars

\* C2: once a GET /api/devices has fetched the list from upstream, no
\* GET /api/devices started less than CACHE_DURATION later, with no write in
\* between, fetches it again, whatever the body upstream answered.
C2_OneUpstreamGetPerWindow ==
  [][(ListStep /\ IsSome(lastListOkAt) /\ now - lastListOkAt[1] < CACHE_DURATION)
       => ~GotList(last')]_vars

\* C3: backOff does not retry a non-transient failure: every answer that was
\* followed by another attempt is a network error, a 429 or a 5xx.
C3_OnlyTransientRetried ==
  IsSome(retryRun) =>
    \A i \in 1..(retryRun[1].result.attempts - 1) :
      retryRun[1].outs[i].status \in {0, 429} \/ retryRun[1].outs[i].status >= 500

\* C4: when the refresh fails the token is marked RefreshAccessTokenError and
\* the session carries no access token, so the route answers 401 and sends
\* nothing upstream.
C4_FailedRefreshYieldsNoToken ==
  (authLast.route \in NextRoutes /\ authLast.refresh.kind \in {"notok", "neterr"}) =>
    /\ jwt[1].error = Some("RefreshAccessTokenError")
    /\ ~TruthyStr(authLast.session)
    /\ authLast.sent = None
    /\ authLast.status = 401

\* C5: no route sends the device API an access token that has expired.
C5_NoExpiredTokenSent ==
  IsSome(authLast.sent) => ~authLast.sent[1].expired

\* C6: with an access token present and now < accessTokenExpires the jwt
\* callback returns the token unchanged and calls the token endpoint not once.
C6_ValidTokenUntouched ==
  [][(RouteStep /\ IsSome(jwt) /\ TruthyStr(jwt[1].accessToken)
        /\ now < jwt[1].accessTokenExpires)
       => /\ jwt' = jwt
          /\ authLast'.refreshCalls = 0
          /\ authLast'.session = jwt[1].accessToken]_vars

\* a route has used a token that had not expired, without a refresh
C6_Witness ==
  /\ authLast.route \in NextRoutes
  /\ authLast.refreshCalls = 0
  /\ IsSome(authLast.sent)
  /\ ~authLast.sent[1].expired

\* C7: with accessTokenExpires in the past and a refresh token the provider
\* accepts, the jwt callback calls the token endpoint exactly once and returns
\* the new access token, expiring expires_in seconds after the answer, with
\* the refresh token kept.
C7_ExpiredTokenRefreshedOnce ==
  [][(RouteStep /\ IsSome(jwt) /\ ~(now < jwt[1].accessTokenExpires)
        /\ authLast'.refresh.kind = "ok")
       => /\ authLast'.refreshCalls = 1
          /\ jwt'[1].accessToken = Some(authLast'.refresh.access_token)
          /\ jwt'[1].accessTokenExpires = now' + authLast'.refresh.expires_in * 1000
          /\ jwt'[1].accessTokenExpires > now'
          /\ jwt'[1].refreshToken = jwt[1].refreshToken
          /\ authLast'.session = jwt'[1].accessToken]_vars

\* a route has run after a successful refresh of an expired token
C7_Witness ==
  /\ authLast.route \in NextRoutes
  /\ authLast.refresh.kind = "ok"
  /\ authLast.refreshCalls = 1
  /\ IsSome(authLast.sent)
  /\ authLast.sent[1].token = "a1"

\* C8: fetchDeviceList without forceRefresh and with an entry younger than
\* CACHE_DURATION returns the cached list, calls upstream not once and leaves
\* the slot and its timestamp as they were.
C8_FreshEntryServed ==
  [][(FetchStep /\ ~last'.fetch.force /\ IsSome(deviceListCache)
        /\ now - lastDeviceListFetch < CACHE_DURATION)
       => /\ ~last'.fetch.threw
          /\ last'.fetch.value = deviceListCache[1]
          /\ last'.calls = <<>>
          /\ deviceListCache' = deviceListCache
          /\ lastDeviceListFetch' = lastDeviceListFetch]_vars

\* GET /api/devices has been served from the cache
C8_Witness ==
  /\ last.op = "list"
  /\ last.fetch.called
  /\ last.calls = <<>>
  /\ last.status = 200
  /\ IsSome(deviceListCache)

\* C9: on a miss (no entry, or one of age >= CACHE_DURATION) or with
\* forceRefresh, a fetchDeviceList that upstream answers with a 2xx stores the
\* list it returns in the slot, with the time of the call as its timestamp.
C9_MissStoresWhatItReturns ==
  [][(FetchStep /\ GotList(last')
        /\ (last'.fetch.force \/ ~IsSome(deviceListCache)
              \/ now - lastDeviceListFetch >= CACHE_DURATION))
       => /\ deviceListCache' = Some(last'.fetch.value)
          /\ lastDeviceListFetch' = now]_vars

\* C10: when the last attempt of the upstream fetch fails, fetchDeviceList
\* throws, the route answers with the error and no list, and the slot and its
\* timestamp are as they were.
C10_FailurePropagates ==
  [][(FetchStep /\ last'.calls # <<>> /\ last'.calls[Len(last'.calls)].status # 200)
       => /\ last'.fetch.threw
          /\ last'.fetch.value = <<>>
          /\ last'.body = <<>>
          /\ last'.status = (IF last'.calls[Len(last'.calls)].status = 0 THEN 500
                             ELSE last'.calls[Len(last'.calls)].status)
          /\ deviceListCache' = deviceListCache
          /\ lastDeviceListFetch' = lastDeviceListFetch]_vars

\* GET /api/devices has failed with an expired entry in the slot
C10_Witness ==
  /\ last.op = "list"
  /\ last.fetch.threw
  /\ last.status # 200
  /\ IsSome(deviceListCache)
  /\ last.body = <<>>

\* a step in which the temperature route handles the request of a session
\* that holds an access token
TemperatureStep ==
  RequestStep /\ last'.op = "temperature" /\ TruthyStr(AccessToken(last'.sess))

\* a body value that is a number: a JSON number or a string of decimal digits
IsNumeric(v) ==
  \/ v.kind = "number"
  \/ v.kind = "string" /\ Len(v.str) > 0 /\ \A i \in 1..Len(v.str) : v.str[i] \in DOMAIN DigitVal

NumericValue(v) == IF v.kind = "number" THEN v.num ELSE DecimalOf(v.str, Len(v.str))

\* the calls of a request that POST a command
Posts(r) == {i \in 1..Len(r.calls) : r.calls[i].ep = "POST executeCommand"}

\* C11: a temperature that is missing, not a number or outside [9, 32] is
\* answered 400 without any upstream call; a number in [9, 32], the two ends
\* included, is passed on upstream.
C11_InvalidSetpointRefused ==
  [][TemperatureStep =>
       LET v == last'.input[1] IN
       IF IsNumeric(v) /\ NumericValue(v) >= 9 /\ NumericValue(v) <= 32
       THEN last'.calls # <<>>
       ELSE last'.status = 400 /\ last'.calls = <<>>]_vars

\* C12: when the device GET of the temperature route reports mode ECO, the
\* route answers 400 "Cannot set temperature while in ECO mode" and POSTs no
\* command; the thermostat keeps its setpoints.
C12_EcoRefusedWithoutPost ==
  [][(TemperatureStep /\ last'.calls # <<>> /\ last'.calls[1].status = 200
        /\ thermostat.mode = Some("ECO"))
       => /\ last'.status = 400
          /\ last'.error = "Cannot set temperature while in ECO mode"
          /\ Posts(last') = {}
          /\ Len(last'.calls) = 1
          /\ thermostat' = thermostat]_vars

\* the temperature route has refused a valid temperature in ECO mode
C12_Witness ==
  /\ last.op = "temperature"
  /\ thermostat.mode = Some("ECO")
  /\ IsNumeric(last.input[1]) /\ InRange(NumericValue(last.input[1]))
  /\ last.status = 400
  /\ Len(last.calls) = 1 /\ last.calls[1].ep = "GET /devices/id" /\ last.calls[1].status = 200

C14_ThreeAttemptsGrowingDelay ==
  IsSome(retryRun) =>
    LET r == retryRun[1].result
        outs == retryRun[1].outs
    IN /\ r.attempts <= 3
       /\ Len(r.calls) = r.attempts
       /\ (\A i \in 1..3 : outs[i].status = 500) =>
             r.attempts = 3 /\ r.outcome.status = 500 /\ retryRun[1].threw
       /\ \A k \in 2..r.attempts :
             r.delays[k] >= r.delays[k - 1] /\ r.delays[k] <= 5000

\* a call answered 500 three times has been attempted three times, after
\* waits of 1000 ms and 2000 ms
C14_Witness ==
  /\ IsSome(retryRun)
  /\ \A i \in 1..3 : retryRun[1].outs[i].status = 500
  /\ retryRun[1].result.attempts = 3
  /\ retryRun[1].result.delays = <<0, 1000, 2000>>
  /\ retryRun[1].threw

\* a failure the retrying client is to retry: no response, 429 or 5xx
Transient(status) == status = 0 \/ status = 429 \/ status >= 500

\* C15: every upstream call of a request is retried on a transient failure:
\* a request gives up on an endpoint after a transient failure only when
\* that was its third attempt in a row.
C15_EveryCallRetried ==
  \A i \in 1..Len(last.calls) :
    (Transient(last.calls[i].status)
       /\ (i = Len(last.calls) \/ last.calls[i + 1].ep # last.calls[i].ep))
    => /\ i >= 3
       /\ last.calls[i - 1].ep = last.calls[i].ep
       /\ last.calls[i - 2].ep = last.calls[i].ep

\* the latest request of the Next.js backend got a non-2xx answer from the
\* device API
UpstreamError ==
  IsSome(authLast.upstream) /\ authLast.upstream[1].status \notin {0, 200}

\* C16: when the device API answers the list call 403 with a body that
\* contains "consent", GET /api/devices answers 403 with requiresReauth true.
C16_ConsentAlwaysFlagged ==
  (UpstreamError /\ authLast.route = "devices" /\ authLast.upstream[1].status = 403
     /\ includes(authLast.upstream[1].body.text, "consent"))
  => authLast.status = 403 /\ authLast.requiresReauth = Some(TRUE)

\* C17: every route classifies a non-2xx answer of the device API the way
\* GET /api/devices does (401 with the re-login flag, 403 permission denied,
\* 404 not found), and a 429 is not classified with the generic failures.
C17_UniformClassification ==
  UpstreamError =>
    /\ authLast.error = devicesError(authLast.upstream[1]).error
    /\ authLast.requiresReauth = devicesError(authLast.upstream[1]).requiresReauth
    /\ authLast.upstream[1].status = 429 => authLast.error # "API request failed"

\* C18: GET /api/devices answers a non-2xx answer of the device API with the
\* same status; 401 is "Authentication required" with requiresReauth true, a
\* 403 whose body names neither consent nor permission is "Permission denied"
\* without requiresReauth true, 404 is "Project not found", and every other
\* status is "API request failed" with the upstream body as details.
C18_StatusMirroredAndClassified ==
  (UpstreamError /\ authLast.route = "devices") =>
    LET up == authLast.upstream[1] IN
    /\ authLast.status = up.status
    /\ up.status = 401 =>
          authLast.error = "Authentication required" /\ authLast.requiresReauth = Some(TRUE)
    /\ (up.status = 403 /\ ~includes(up.body.text, "consent")
          /\ ~includes(up.body.text, "permission")) =>
          authLast.error = "Permission denied" /\ authLast.requiresReauth # Some(TRUE)
    /\ up.status = 404 => authLast.error = "Project not found"
    /\ up.status \notin {401, 403, 404} =>
          authLast.error = "API request failed" /\ authLast.details = Some(up.body)

\* C19: a request of a session that holds no access token is answered 401
\* without any call to the device API; the device cache, its timestamp and
\* the thermostat are as they were.
C19_NoTokenNoUpstream ==
  [][/\ (RequestStep /\ ~TruthyStr(session[last'.sess].tokens)
           /\ ~TruthyStr(session[last'.sess].accessToken))
          => /\ last'.status = 401
             /\ last'.error = "Please login first"
             /\ last'.calls = <<>>
             /\ ~last'.fetch.called
             /\ deviceListCache' = deviceListCache
             /\ lastDeviceListFetch' = lastDeviceListFetch
             /\ thermostat' = thermostat
             /\ session' = session
     /\ (RouteStep /\ (~IsSome(jwt) \/ ~TruthyStr(jwt[1].accessToken)))
          => /\ authLast'.status = 401
             /\ authLast'.sent = None
             /\ authLast'.upstream = None]_vars

\* a write route of the Express backend and a device route of the Next.js
\* backend have both answered 401 to a session without a token
C19_Witness ==
  /\ last.op = "temperature"
  /\ last.status = 401
  /\ last.calls = <<>>
  /\ authLast.route = "devices"
  /\ authLast.status = 401
  /\ IsSome(jwt) /\ ~TruthyStr(jwt[1].accessToken)

\* the ids of the thermostats of a device list from position i on, in the
\* order of the list
RECURSIVE ThermostatIdsFrom(_, _)
ThermostatIdsFrom(devices, i) ==
  IF i > Len(devices) THEN <<>>
  ELSE IF devices[i].type = "sdm.devices.types.THERMOSTAT"
       THEN <<devices[i].name[Len(devices[i].name)]>> \o ThermostatIdsFrom(devices, i + 1)
  ELSE ThermostatIdsFrom(devices, i + 1)

\* C20: the records GET /api/devices builds are those of the thermostats of
\* the upstream list, one each, in the order of the list, and of no other
\* device.
C20_OneRecordPerThermostatInOrder ==
  IsSome(normRun) =>
    [i \in 1..Len(normRun[1].records) |-> normRun[1].records[i].id]
      = ThermostatIdsFrom(normRun[1].devices, 1)

\* a list of two thermostats with a camera between them has been normalised
C20_Witness ==
  /\ IsSome(normRun)
  /\ Len(normRun[1].devices) = 3
  /\ normRun[1].devices[1].type = THERMOSTAT /\ normRun[1].devices[1].name[4] = "t2"
  /\ normRun[1].devices[2].type = CAMERA
  /\ normRun[1].devices[3].type = THERMOSTAT /\ normRun[1].devices[3].name[4] = "t1"
  /\ Len(normRun[1].records) = 2
  /\ normRun[1].records[1].id = "t2" /\ normRun[1].records[2].id = "t1"

\* C21: a field of a record of GET /api/devices is the 'N/A' marker exactly
\* when the trait it is read from is absent upstream, and is the upstream
\* value when the trait is present.
C21_UnavailableIffAbsent ==
  IsSome(normRun) =>
    LET ts == Thermostats(normRun[1].devices) IN
    \A i \in 1..Len(ts) :
      LET traits == ts[i].traits
          record == normRun[1].records[i]
      IN /\ (record.currentTemp = NA) <=> (traits.ambientTemperatureCelsius = None)
         /\ IsSome(traits.ambientTemperatureCelsius)
              => record.currentTemp = traits.ambientTemperatureCelsius
         /\ (record.humidity = NA) <=> (traits.ambientHumidityPercent = None)
         /\ IsSome(traits.ambientHumidityPercent)
              => record.humidity = traits.ambientHumidityPercent
         /\ (record.mode = "N/A") <=> (traits.mode = None)
         /\ IsSome(traits.mode) => record.mode = traits.mode[1]
         /\ (record.targetTemp = NA)
              <=> (traits.heatCelsius = None /\ traits.coolCelsius = None)
         /\ IsSome(record.targetTemp)
              => record.targetTemp \in {traits.heatCelsius, traits.coolCelsius}

\* C22: a device list returned to a session (by GET /api/devices, the
\* temperature write or the mode write) shows for a device the custom name
\* that session holds for it, and the device's own id when the session
\* holds none, whatever the other sessions hold.
C22_StoredNameShownToItsSession ==
  [][(RequestStep /\ last'.op \in {"list", "temperature", "mode"} /\ last'.status = 200)
       => \A i \in 1..Len(last'.body) :
            LET record == last'.body[i]
                stored == session[last'.sess].customNames[record.id]
            IN record.name = IF stored = None THEN record.id ELSE stored[1]]_vars

\* one browser has named the thermostat "Den", the other "Loft", and the
\* mode write of the first has returned a list that shows "Den"
C22_Witness ==
  /\ session["s1"].customNames["t1"] = Some("Den")
  /\ session["s2"].customNames["t1"] = Some("Loft")
  /\ last.op = "mode" /\ last.sess = "s1" /\ last.status = 200
  /\ Len(last.body) = 1
  /\ last.body[1].name = "Den"

\* C23: the client has at most one setpoint or mode command in flight.
C23_OnePendingCommand == Len(app.commands) <= 1

\* C24: a GET /api/devices leaves the client only when the backoff announced
\* after the last 429 is over.
C24_NoGetDuringBackoff ==
  [][app'.lastGet.n # app.lastGet.n => app'.clock >= app'.quietUntil]_vars

\* C30: a setpoint that passes the range check of handleIncrement passes the
\* range check of the server, and a setpoint that fails it sends nothing.
C30_ClientRangeWithinServerRange ==
  [][app'.lastClick.n # app.lastClick.n
       => /\ app'.lastClick.passed => serverAccepts(app'.lastClick.value[1])
          /\ ~app'.lastClick.passed => app'.commands = app.commands]_vars

\* C25: once TemperatureDial or TemperatureGraph is unmounted its interval
\* is cleared, none of its sockets is left open or connecting, and nothing
\* that arrives later changes its state.
C25_UnmountTearsDown ==
  [][/\ widgets'.dial.unmounted
          => ~widgets'.dial.interval /\ widgets'.dial.open = 0
     /\ widgets.dial.unmounted
          => /\ widgets'.dial.deviceData = widgets.dial.deviceData
             /\ widgets'.dial.isLoading = widgets.dial.isLoading
     /\ widgets'.graph.unmounted
          => ~widgets'.graph.interval /\ widgets'.graph.open = 0
     /\ widgets.graph.unmounted
          => /\ widgets'.graph.data = widgets.graph.data
             /\ widgets'.graph.isLoading = widgets.graph.isLoading]_vars

\* C26: the cache slot holds a list together with the timestamp of the call
\* that fetched it, and lastDeviceListFetch never decreases.
C26_CachePairedAndMonotonic ==
  [][/\ IsSome(deviceListCache') => flights'.writer = Some(lastDeviceListFetch')
     /\ lastDeviceListFetch' >= lastDeviceListFetch]_vars

\* C27: for the same upstream devices and the same session, the records of
\* GET /api/devices and the records the temperature and mode routes return
\* agree on id, name, currentTemp, targetTemp, mode and humidity.
C27_ReadAndWriteRecordsAgree ==
  IsSome(normRun) =>
    /\ Len(normRun[1].written) = Len(normRun[1].records)
    /\ \A i \in 1..Len(normRun[1].records) :
         LET read == normRun[1].records[i]
             write == normRun[1].written[i]
         IN /\ write.id = read.id
            /\ write.name = read.name
            /\ write.currentTemp = read.currentTemp
            /\ write.targetTemp = read.targetTemp
            /\ write.mode = read.mode
            /\ write.humidity = read.humidity

\* C28: a callback stores tokens only when its state parameter is present
\* and equals the oauthState that /auth/login stored in the same session.
C28_TokensOnlyForStoredState ==
  [][(RequestStep /\ last'.op = "callback" /\ last'.body = <<"/">>)
       => /\ IsSome(last'.input)
          /\ session[last'.sess].oauthState = last'.input
          /\ session'[last'.sess].tokens = Some("tok")]_vars

====
